---- MODULE Spec2Model ----
(***************************************************************************)
(* Student dashboard page (src/app/student/dashboard/page.tsx).            *)
(*                                                                         *)
(* StudentDashboard loads the student's enrollments once the auth hook     *)
(* reports a student, and renders one EnrollmentCard per enrollment.  Each *)
(* card's effect computes the time remaining to expected_end_date and      *)
(* re-computes it from a 60000 ms interval timer that the effect's cleanup *)
(* clears.                                                                 *)
(*                                                                         *)
(* Instants are integer milliseconds counted from a clock origin (a UTC    *)
(* midnight); only differences of instants enter the program's arithmetic. *)
(* A date string is the record of its fields, and GetTime converts it to   *)
(* milliseconds as new Date(s).getTime() does.                             *)
(***************************************************************************)
EXTENDS Integers, Sequences, FiniteSets, TLC

VARIABLES
    user,           \* useAuth().user: NoUser or a user id
    profile,        \* useAuth().profile: NoProfile or the profile's role
    loading,        \* useAuth().loading
    route,          \* "dashboard", or "login" once router.push('/auth/login') ran
    enrollments,    \* useState<Enrollment[]>: sequence of [id, expected_end_date]
    coursesLoading, \* useState(true)
    pending,        \* number of fetchEnrollments calls awaiting the service
    pageMounted,    \* the StudentDashboard instance is mounted
    timeRemaining,  \* per card: <<>> (null) or <<[weeks, days, hours, minutes]>>
    timers,         \* live setInterval timers: [card, end, due]
    now,            \* wall clock, ms
    computedAt,     \* history: per card, <<>> or <<[end, at]>> of its last computation
    fetchCompleted, \* history: some fetchEnrollments call has run to its finally
    lastOp          \* history: the step just taken

vars == <<user, profile, loading, route, enrollments, coursesLoading, pending,
          pageMounted, timeRemaining, timers, now, computedAt, fetchCompleted, lastOp>>

---------------------------------------------------------------------------
(* Bounds of the model *)

MaxPending == 2
MaxClockSteps == 2

---------------------------------------------------------------------------
(* Constants of the program *)

MsPerSecond == 1000
SecondsPerMinute == 60
MinutesPerHour == 60
HoursPerDay == 24
DaysPerWeek == 7
IntervalMs == 60000

MsPerMinute == MsPerSecond * SecondsPerMinute
MsPerHour == MsPerMinute * MinutesPerHour
MsPerDay == MsPerHour * HoursPerDay
MsPerWeek == MsPerDay * DaysPerWeek

---------------------------------------------------------------------------
(* Dates and the countdown computation *)

Date(d, h, m, s, ms) ==
    [ok |-> TRUE, day |-> d, hour |-> h, minute |-> m, second |-> s, milli |-> ms]

InvalidDate == [ok |-> FALSE, day |-> 0, hour |-> 0, minute |-> 0, second |-> 0, milli |-> 0]

\* new Date(str).getTime() of a valid date string (an invalid one gives NaN)
GetTime(s) ==
    s.day * MsPerDay + s.hour * MsPerHour + s.minute * MsPerMinute
        + s.second * MsPerSecond + s.milli

Zero == [weeks |-> 0, days |-> 0, hours |-> 0, minutes |-> 0]

\* Math.floor(x) of the quotient of two positive integers
Floor(n, d) == n \div d

Ceil(n, d) == (n + d - 1) \div d

CalculateTimeRemainingCeil(end, t) ==
    IF ~end.ok THEN Zero
    ELSE LET difference == GetTime(end) - t IN
         IF difference > 0
         THEN [weeks   |-> Floor(difference, MsPerWeek),
               days    |-> Floor(difference, MsPerDay) % DaysPerWeek,
               hours   |-> Floor(difference, MsPerHour) % HoursPerDay,
               minutes |-> Ceil(difference, MsPerMinute) % MinutesPerHour]
         ELSE Zero

CalculateTimeRemainingNoClamp(end, t) ==
    IF ~end.ok THEN Zero
    ELSE LET difference == GetTime(end) - t IN
         [weeks   |-> Floor(difference, MsPerWeek),
          days    |-> Floor(difference, MsPerDay) % DaysPerWeek,
          hours   |-> Floor(difference, MsPerHour) % HoursPerDay,
          minutes |-> Floor(difference, MsPerMinute) % MinutesPerHour]

\* calculateTimeRemaining at wall-clock instant t for the date string end.
\* With an invalid date the difference is NaN and NaN > 0 is false.
\* Math.floor((x / d) % m) of positive integers x, d is floor(x / d) mod m.
CalculateTimeRemaining(end, t) ==
    IF ~end.ok THEN Zero
    ELSE LET difference == GetTime(end) - t IN
         IF difference > 0
         THEN [weeks   |-> Floor(difference, MsPerWeek),
               days    |-> Floor(difference, MsPerDay) % DaysPerWeek,
               hours   |-> Floor(difference, MsPerHour) % HoursPerDay,
               minutes |-> Floor(difference, MsPerMinute) % MinutesPerHour]
         ELSE Zero

---------------------------------------------------------------------------
(* The values of the model *)

NoUser == "none"
NoProfile == "none"
Users == {NoUser, "u1"}
Profiles == {NoProfile, "student", "instructor"}

CardIds == {1, 2}

\* the clock reads day 1, 00:00:00.000 when the page is constructed
ClockStart == MsPerDay
ClockStep == IntervalMs

PastDate == Date(0, 23, 50, 0, 0)    \* 10 minutes before ClockStart
SoonDate == Date(1, 0, 1, 30, 0)     \* 90 seconds after ClockStart
FarDate == Date(15, 3, 5, 0, 0)      \* 14 days, 3 hours, 5 minutes after ClockStart

Enrollment(c, e) == [id |-> c, expected_end_date |-> e]

\* the result sets the service may return: enrollments with distinct ids
DataLists ==
    {<<>>,
     <<Enrollment(1, SoonDate)>>,
     <<Enrollment(1, FarDate)>>,
     <<Enrollment(1, SoonDate), Enrollment(2, PastDate)>>,
     <<Enrollment(2, PastDate)>>}

\* what the awaited request settles with: { data, error }, or a rejection
Responses ==
    {[rejected |-> FALSE, error |-> FALSE, hasData |-> TRUE, data |-> d] : d \in DataLists}
    \cup {[rejected |-> FALSE, error |-> FALSE, hasData |-> FALSE, data |-> <<>>],
          [rejected |-> FALSE, error |-> TRUE, hasData |-> FALSE, data |-> <<>>],
          [rejected |-> TRUE, error |-> FALSE, hasData |-> FALSE, data |-> <<>>]}

---------------------------------------------------------------------------
(* StudentDashboard *)

InitialCoursesLoadingFalse == FALSE

\* useState(true)
InitialCoursesLoading == TRUE

\* the redirect effect's condition
ShouldRedirect(u, l) == ~l /\ u = NoUser

\* the fetch effect's condition: user && profile?.role === 'student'
ShouldFetch(u, p) == u # NoUser /\ p = "student"

\* data || []
OrEmpty(hasData, data) == IF hasData THEN data ELSE <<>>

FetchCatchClears(ens) == <<>>

\* the catch block: the error is logged, the list is not touched
FetchCatch(ens) == ens

\* the finally block: setCoursesLoading(false)
FetchFinally == FALSE

\* the enrollments rendered as cards: none behind the loading screen
Rendered(pm, l, cl, ens) == IF pm /\ ~(l \/ cl) THEN ens ELSE <<>>

Shown == Rendered(pageMounted, loading, coursesLoading, enrollments)

Ids(r) == {r[i].id : i \in DOMAIN r}

EndOf(r, c) == r[CHOOSE i \in DOMAIN r : r[i].id = c].expected_end_date

---------------------------------------------------------------------------
(* EnrollmentCard: its effect, keyed by enrollment.id, with the dependency *)
(* [enrollment.expected_end_date]                                          *)

Unmounting(old, new) == Ids(old) \ Ids(new)
Mounting(old, new) == Ids(new) \ Ids(old)
DepChanged(old, new) == {c \in Ids(old) \cap Ids(new) : EndOf(old, c) # EndOf(new, c)}

EffectInitialNone(prev, end, t) == prev

\* calculateTimeRemaining() called by the effect itself
EffectInitial(prev, end, t) == <<CalculateTimeRemaining(end, t)>>

\* setInterval(calculateTimeRemaining, 60000): the callback closes over the card's end date
SetInterval(T, c, end, t) == T \cup {[card |-> c, end |-> end, due |-> t + IntervalMs]}

EffectCleanupNone(T, c, end) == T

EffectCleanupOther(T, c, end) == {x \in T : ~(x.card = c /\ x.end # end)}

\* () => clearInterval(interval): clears the timer this run of the effect created
EffectCleanup(T, c, end) == {x \in T : ~(x.card = c /\ x.end = end)}

RECURSIVE CleanupAll(_, _, _)
CleanupAll(T, S, old) ==
    IF S = {} THEN T
    ELSE LET c == CHOOSE x \in S : TRUE
         IN CleanupAll(EffectCleanup(T, c, EndOf(old, c)), S \ {c}, old)

RECURSIVE SetupAll(_, _, _, _)
SetupAll(T, S, new, t) ==
    IF S = {} THEN T
    ELSE LET c == CHOOSE x \in S : TRUE
         IN SetupAll(SetInterval(T, c, EndOf(new, c), t), S \ {c}, new, t)

\* React commits the change of the rendered list from old to new at instant t:
\* removed cards and cards whose dependency changed run their cleanup, then new
\* cards and cards whose dependency changed run the effect.
CommitTimers(old, new, t, T) ==
    SetupAll(CleanupAll(T, Unmounting(old, new) \cup DepChanged(old, new), old),
             Mounting(old, new) \cup DepChanged(old, new), new, t)

CommitValues(old, new, t, TR) ==
    [c \in CardIds |->
        IF c \in Mounting(old, new) THEN EffectInitial(<<>>, EndOf(new, c), t)
        ELSE IF c \in DepChanged(old, new) THEN EffectInitial(TR[c], EndOf(new, c), t)
        ELSE IF c \in Unmounting(old, new) THEN <<>>
        ELSE TR[c]]

CommitLog(old, new, t, L) ==
    [c \in CardIds |->
        IF c \in Mounting(old, new) \cup DepChanged(old, new)
        THEN <<[end |-> EndOf(new, c), at |-> t]>>
        ELSE IF c \in Unmounting(old, new) THEN <<>>
        ELSE L[c]]

CommitCards(old, new) ==
    /\ timers' = CommitTimers(old, new, now, timers)
    /\ timeRemaining' = CommitValues(old, new, now, timeRemaining)
    /\ computedAt' = CommitLog(old, new, now, computedAt)

\* the step just taken: its kind, the card whose timer ticked (0: none), the cards
\* whose effect re-ran for a changed end date and the cards that were unmounted
Op(name, c, old, new) ==
    [op |-> name, card |-> c, reran |-> DepChanged(old, new), removed |-> Unmounting(old, new)]

---------------------------------------------------------------------------
(* Initial states: the page has been constructed and its effects have run *)
(* for whatever the auth hook reported at that moment.                    *)

Init ==
    /\ user \in Users
    /\ profile \in Profiles
    /\ loading \in BOOLEAN
    /\ route = IF ShouldRedirect(user, loading) THEN "login" ELSE "dashboard"
    /\ enrollments = <<>>
    /\ coursesLoading = InitialCoursesLoading
    /\ pending = IF ShouldFetch(user, profile) THEN 1 ELSE 0
    /\ pageMounted = TRUE
    /\ timeRemaining = [c \in CardIds |-> <<>>]
    /\ timers = {}
    /\ now = ClockStart
    /\ computedAt = [c \in CardIds |-> <<>>]
    /\ fetchCompleted = FALSE
    /\ lastOp = Op("mount", 0, <<>>, <<>>)

---------------------------------------------------------------------------
(* Actions *)

\* The auth hook reports new values (fresh: the user and profile objects are new
\* ones, whatever their content); the page re-renders and the effects whose
\* dependencies changed run.
AuthUpdate(u, p, l, fresh) ==
    LET userChanged == u # user \/ (fresh /\ u # NoUser)
        profileChanged == p # profile \/ (fresh /\ p # NoProfile)
        loadingChanged == l # loading
        startsFetch == (userChanged \/ profileChanged) /\ ShouldFetch(u, p)
        redirects == (userChanged \/ loadingChanged) /\ ShouldRedirect(u, l)
        new == Rendered(pageMounted, l, coursesLoading, enrollments)
    IN  /\ pageMounted
        /\ userChanged \/ profileChanged \/ loadingChanged
        /\ startsFetch => pending < MaxPending
        /\ user' = u
        /\ profile' = p
        /\ loading' = l
        /\ route' = IF redirects THEN "login" ELSE route
        /\ pending' = IF startsFetch THEN pending + 1 ELSE pending
        /\ CommitCards(Shown, new)
        /\ lastOp' = Op(IF startsFetch THEN "fetchStart" ELSE "auth", 0, Shown, new)
        /\ UNCHANGED <<enrollments, coursesLoading, pageMounted, now, fetchCompleted>>

\* A pending fetchEnrollments call resumes after its await with response r and
\* runs to the end of its finally block.  On an unmounted page the state
\* setters do nothing.
FetchSettled(r) ==
    LET failed == r.rejected \/ r.error
        ens == IF ~pageMounted THEN enrollments
               ELSE IF failed THEN FetchCatch(enrollments)
               ELSE OrEmpty(r.hasData, r.data)
        cl == IF pageMounted THEN FetchFinally ELSE coursesLoading
        new == Rendered(pageMounted, loading, cl, ens)
    IN  /\ pending > 0
        /\ pending' = pending - 1
        /\ enrollments' = ens
        /\ coursesLoading' = cl
        /\ fetchCompleted' = TRUE
        /\ CommitCards(Shown, new)
        /\ lastOp' = Op(IF failed THEN "fetchFailed" ELSE "fetchOk", 0, Shown, new)
        /\ UNCHANGED <<user, profile, loading, route, pageMounted, now>>

\* The interval timer tm is due and its callback runs calculateTimeRemaining.
Tick(tm) ==
    /\ tm \in timers
    /\ now >= tm.due
    /\ timers' = (timers \ {tm}) \cup {[tm EXCEPT !.due = now + IntervalMs]}
    /\ IF tm.card \in Ids(Shown)
       THEN /\ timeRemaining' = [timeRemaining EXCEPT
                                    ![tm.card] = <<CalculateTimeRemaining(tm.end, now)>>]
            /\ computedAt' = [computedAt EXCEPT ![tm.card] = <<[end |-> tm.end, at |-> now]>>]
       ELSE UNCHANGED <<timeRemaining, computedAt>>
    /\ lastOp' = Op("tick", tm.card, <<>>, <<>>)
    /\ UNCHANGED <<user, profile, loading, route, enrollments, coursesLoading, pending,
                   pageMounted, now, fetchCompleted>>

\* Wall-clock time passes.
Advance ==
    /\ now + ClockStep <= ClockStart + MaxClockSteps * ClockStep
    /\ now' = now + ClockStep
    /\ lastOp' = Op("advance", 0, <<>>, <<>>)
    /\ UNCHANGED <<user, profile, loading, route, enrollments, coursesLoading, pending,
                   pageMounted, timeRemaining, timers, computedAt, fetchCompleted>>

\* The page is left: the StudentDashboard instance and its cards unmount.
PageUnmount ==
    /\ pageMounted
    /\ pageMounted' = FALSE
    /\ CommitCards(Shown, <<>>)
    /\ lastOp' = Op("unmount", 0, Shown, <<>>)
    /\ UNCHANGED <<user, profile, loading, route, enrollments, coursesLoading, pending,
                   now, fetchCompleted>>

Next ==
    \/ \E u \in Users, p \in Profiles, l \in BOOLEAN, fresh \in BOOLEAN :
          AuthUpdate(u, p, l, fresh)
    \/ \E r \in Responses : FetchSettled(r)
    \/ \E tm \in timers : Tick(tm)
    \/ Advance
    \/ PageUnmount

Spec == Init /\ [][Next]_vars

---------------------------------------------------------------------------
(* The countdown computation over a range of end dates: the page is        *)
(* constructed under an established student session, its one fetch returns *)
(* a single enrollment whose end date is drawn from CalcDates, and the     *)
(* card's effect and timer compute the time remaining as the clock runs.   *)

CalcDates ==
    {InvalidDate}
    \cup {Date(d, h, m, sec, ms) :
            d \in {1, 2, 7, 8, 15, 22}, h \in {0, 3, 23}, m \in {0, 1, 5, 59},
            sec \in {0, 59}, ms \in {0, 1, 999}}

InitCalc == Init /\ ShouldFetch(user, profile) /\ ~loading

NextCalc ==
    \/ \E e \in CalcDates :
          FetchSettled([rejected |-> FALSE, error |-> FALSE, hasData |-> TRUE,
                        data |-> <<Enrollment(1, e)>>])
    \/ \E tm \in timers : Tick(tm)
    \/ Advance

SpecCalc == InitCalc /\ [][NextCalc]_vars

---------------------------------------------------------------------------
(* Properties *)

HasValue(c) == timeRemaining[c] # <<>>
Value(c) == timeRemaining[c][1]

\* the difference endDate - now of card c's last computation, for a valid end date
Computed(c) == computedAt[c] # <<>> /\ computedAt[c][1].end.ok
DifferenceAt(c) == GetTime(computedAt[c][1].end) - computedAt[c][1].at

TimersOf(c) == {x \in timers : x.card = c}

Decomposes(v, difference) ==
    /\ v.days < DaysPerWeek
    /\ v.hours < HoursPerDay
    /\ v.minutes < MinutesPerHour
    /\ LET sum == v.weeks * MsPerWeek + v.days * MsPerDay + v.hours * MsPerHour
                    + v.minutes * MsPerMinute
       IN sum <= difference /\ difference < sum + MsPerMinute

\* C1: whenever a card's value was computed with difference = endDate - now > 0,
\* weeks*604800000 + days*86400000 + hours*3600000 + minutes*60000 <= difference
\* < that sum + 60000, with days < 7, hours < 24 and minutes < 60.
C1_DecomposesDifference ==
    \A c \in CardIds :
        (HasValue(c) /\ Computed(c) /\ DifferenceAt(c) > 0)
            => Decomposes(Value(c), DifferenceAt(c))

\* 14 days, 3 hours, 5 minutes ahead gives {2, 0, 3, 5}
C1_Witness ==
    /\ computedAt[1] = <<[end |-> FarDate, at |-> ClockStart]>>
    /\ timeRemaining[1] = <<[weeks |-> 2, days |-> 0, hours |-> 3, minutes |-> 5]>>

NonNegative(v) == v.weeks >= 0 /\ v.days >= 0 /\ v.hours >= 0 /\ v.minutes >= 0

\* C2: every stored TimeRemaining has four non-negative fields, a computation with
\* endDate - now <= 0 stores all-zero, and once an unchanged end date has passed
\* and the value is all-zero, every later step keeps it all-zero while the card
\* stays mounted.
C2_NeverNegativeZeroOncePassed ==
    /\ [](\A c \in CardIds :
            HasValue(c) =>
                /\ NonNegative(Value(c))
                /\ (Computed(c) /\ DifferenceAt(c) <= 0) => Value(c) = Zero)
    /\ [][\A c \in CardIds :
            (/\ c \in Ids(Shown) /\ c \in Ids(Shown')
             /\ EndOf(Shown, c) = EndOf(Shown', c)
             /\ EndOf(Shown, c).ok
             /\ GetTime(EndOf(Shown, c)) - now <= 0
             /\ timeRemaining[c] = <<Zero>>)
                => timeRemaining'[c] = <<Zero>>]_vars

\* a tick after SoonDate has passed stored all-zero
C2_Witness ==
    /\ lastOp.op = "tick"
    /\ computedAt[lastOp.card] # <<>>
    /\ computedAt[lastOp.card][1].end = SoonDate
    /\ DifferenceAt(lastOp.card) < 0
    /\ timeRemaining[lastOp.card] = <<Zero>>

\* C3: a card that is not mounted has no live timer, no tick runs for it and it
\* holds no recomputed value.
C3_UnmountReleasesTimer ==
    /\ \A x \in timers : x.card \in Ids(Shown)
    /\ lastOp.op = "tick" => lastOp.card \in Ids(Shown)
    /\ \A c \in CardIds \ Ids(Shown) : ~HasValue(c) /\ computedAt[c] = <<>>

\* a step removed a card from the list of a page that stays mounted, after the
\* card's first tick had become due
C3_Witness ==
    /\ pageMounted
    /\ lastOp.removed # {}
    /\ now >= ClockStart + IntervalMs
    /\ \A c \in lastOp.removed : TimersOf(c) = {}

\* C4: after a failed fetch the page's enrollment list is empty.
C4_FailedFetchLeavesListEmpty ==
    (pageMounted /\ lastOp.op = "fetchFailed") => enrollments = <<>>

\* C5: at most one enrollment fetch is in flight at any time.
C5_AtMostOneFetchInFlight == pending <= 1

\* C6: a fetch is started only when a user is present, the role is "student" and
\* the session's loading flag is false.
C6_FetchOnlyWhenSessionEstablished ==
    lastOp.op = "fetchStart" => (user # NoUser /\ profile = "student" /\ ~loading)

\* C7: every mounted card holds a computed value, and no tick of a card runs in a
\* state where that card holds none.
C7_InitialComputationBeforeTick ==
    /\ [](\A c \in Ids(Shown) : HasValue(c))
    /\ [][lastOp'.op = "tick" => timeRemaining[lastOp'.card] # <<>>]_vars

\* a tick, one interval after the card's initial computation stored {2, 0, 3, 5},
\* recomputed the value to {2, 0, 3, 4}
C7_Witness ==
    /\ lastOp.op = "tick"
    /\ computedAt[lastOp.card] = <<[end |-> FarDate, at |-> ClockStart + IntervalMs]>>
    /\ timeRemaining[lastOp.card] = <<[weeks |-> 2, days |-> 0, hours |-> 3, minutes |-> 4]>>

\* C8: every mounted card has exactly one live timer, created for its current
\* end date, and a card that is not mounted has none.
C8_OneTimerPerMountedCard ==
    \A c \in CardIds :
        IF c \in Ids(Shown)
        THEN /\ Cardinality(TimersOf(c)) = 1
             /\ \A x \in TimersOf(c) : x.end = EndOf(Shown, c)
        ELSE TimersOf(c) = {}

\* the end date of a mounted card changed and two cards are mounted
C8_Witness ==
    /\ lastOp.reran # {}
    /\ Cardinality(timers) = 2
    /\ Cardinality(Ids(Shown)) = 2

\* C9: coursesLoading is false only after a fetch has completed, never becomes
\* true again, and a fetch is started only for a user whose role is "student".
C9_CoursesLoadingClearedOnlyByFetch ==
    /\ [](~coursesLoading => fetchCompleted)
    /\ []((lastOp.op = "mount" /\ pending > 0) => ShouldFetch(user, profile))
    /\ [][~coursesLoading => ~coursesLoading']_vars
    /\ [][pending' > pending => ShouldFetch(user', profile')]_vars

\* the only fetch of the page has completed and the loading screen is left
C9_Witness == ~coursesLoading /\ fetchCompleted /\ pageMounted /\ pending = 0

\* C10: a failed fetch leaves the enrollment list as it was.
C10_FailedFetchKeepsList ==
    [][lastOp'.op = "fetchFailed" => enrollments' = enrollments]_vars

\* a fetch failed on a page that shows the result of an earlier fetch
C10_Witness ==
    /\ pageMounted
    /\ lastOp.op = "fetchFailed"
    /\ enrollments # <<>>

====
